---- MODULE Spec2Model ----
(***************************************************************************)
(* A model of the TSTyche reporters: the event dispatcher of               *)
(* TstycheBaseReporter (lib/tstyche-base-reporter.js) and the two concrete *)
(* renderers TstycheDotReporter (lib/tstyche-dot-reporter.js) and          *)
(* TstycheMochaReporter (lib/tstyche-mocha-reporter.js).                    *)
(*                                                                         *)
(* One reporter instance receives TSTyche events one at a time through     *)
(* on().  A JavaScript string is a sequence of atoms (an atom is a piece   *)
(* of text without structure, "\n" is the newline atom), an optional       *)
(* value is a sequence of length 0 (undefined) or 1.  Every write to the   *)
(* console is a record of the stream, the text, whether the call appends   *)
(* a newline (console.log, console.error) or not (process.stdout.write).   *)
(***************************************************************************)
EXTENDS Integers, Sequences, FiniteSets, TLC

(***************************************************************************)
(* Bounds of the explored inputs.                                          *)
(***************************************************************************)
\* project:uses events per run, all event kinds delivered
MaxUses == 1
\* project:uses events per run, version scenario
MaxVersionUses == 5
\* depth of nested describe blocks
MaxDepth == 3
\* marks on one output line, all event kinds delivered
MaxMarks == 3
\* marks on one output line, wrapping scenario
MaxWrapMarks == 82
\* nesting of related diagnostics, formatting scenario
MaxRelatedDepth == 2
\* related diagnostics of the diagnostic formatted, formatting scenario
MaxRelated == 2
MaxScenario == 6

(***************************************************************************)
(* Optional values and strings.                                            *)
(***************************************************************************)
None == <<>>
Some(x) == <<x>>
IsSome(o) == Len(o) > 0
\* a ?? b
OrElse(o, d) == IF IsSome(o) THEN o[1] ELSE d

Str(a) == <<a>>
EmptyStr == <<>>
NL == "\n"

RECURSIVE Join(_, _)
\* lines.join(sep)
Join(lines, sep) ==
  IF Len(lines) = 0 THEN EmptyStr
  ELSE IF Len(lines) = 1 THEN lines[1]
  ELSE lines[1] \o sep \o Join(Tail(lines), sep)

(***************************************************************************)
(* The closed enumeration of event kinds, as the switch of on() names it.  *)
(***************************************************************************)
ErrorKinds ==
  { "store:error", "project:error", "file:error", "directive:error",
    "collect:error", "test:error", "expect:error", "suppressed:error",
    "watch:error" }

NonImplementedKinds ==
  { "store:adds", "target:start", "target:end", "file:end", "collect:start",
    "collect:node", "collect:end", "test:start", "test:skip", "test:fixme",
    "test:todo", "expect:start", "expect:fail", "expect:pass", "expect:skip",
    "expect:fixme", "suppressed:match", "suppressed:ignore" }

LifecycleKinds ==
  { "run:start", "project:uses", "file:start", "describe:start",
    "describe:end", "test:pass", "test:fail", "run:end" }

EventKinds == ErrorKinds \cup LifecycleKinds \cup NonImplementedKinds

\* kinds the producer could send after the protocol has drifted
UnknownKinds == { "run:abort", "test:done" }

(***************************************************************************)
(* Diagnostics (tstyche's Diagnostic): text is a string or an array of     *)
(* strings, code, category and related are optional.                       *)
(***************************************************************************)
Scalar(s) == [isArray |-> FALSE, value |-> s]
Lines(ss) == [isArray |-> TRUE, value |-> ss]
Diag(text, code, category, related) ==
  [text |-> text, code |-> code, category |-> category, related |-> related]

\* JavaScript truthiness of an optional string: undefined and '' are falsy
Truthy(o) == IsSome(o) /\ o[1] # EmptyStr

Indent2 == "  "

RECURSIVE formatDiagnostic(_)
RECURSIVE formatRelated(_)
\* diagnostic.related.map((related) => '  ' + this._formatDiagnostic(related))
formatRelated(rs) ==
  IF Len(rs) = 0 THEN <<>>
  ELSE <<Str(Indent2) \o formatDiagnostic(rs[1])>> \o formatRelated(Tail(rs))

\* A faulty variant of formatDiagnostic: the code and the category are
\* appended without looking whether the diagnostic has them.
formatDiagnosticUnguarded(diagnostic) ==
  LET text == IF diagnostic.text.isArray
              THEN diagnostic.text.value
              ELSE <<diagnostic.text.value>>
      code == Str(" (") \o OrElse(diagnostic.code, Str("undefined")) \o Str(")")
      category == Str(" [") \o OrElse(diagnostic.category, Str("undefined")) \o Str("]")
      lines == [index \in 1..Len(text) |->
                  text[index] \o (IF index = 1 THEN code ELSE EmptyStr)]
      output == Join(lines, Str(NL)) \o category
  IN IF IsSome(diagnostic.related) /\ Len(diagnostic.related[1]) > 0
     THEN output \o Str(NL) \o Join(formatRelated(diagnostic.related[1]), Str(NL))
     ELSE output

\* A faulty variant of formatDiagnostic: the code is appended to every line.
formatDiagnosticCodeEveryLine(diagnostic) ==
  LET text == IF diagnostic.text.isArray
              THEN diagnostic.text.value
              ELSE <<diagnostic.text.value>>
      code == IF Truthy(diagnostic.code)
              THEN Str(" (") \o diagnostic.code[1] \o Str(")")
              ELSE EmptyStr
      category == IF Truthy(diagnostic.category)
                  THEN Str(" [") \o diagnostic.category[1] \o Str("]")
                  ELSE EmptyStr
      lines == [index \in 1..Len(text) |-> text[index] \o code]
      output == Join(lines, Str(NL)) \o category
  IN IF IsSome(diagnostic.related) /\ Len(diagnostic.related[1]) > 0
     THEN output \o Str(NL) \o Join(formatRelated(diagnostic.related[1]), Str(NL))
     ELSE output

\* TstycheBaseReporter._formatDiagnostic
formatDiagnostic(diagnostic) ==
  LET text == IF diagnostic.text.isArray
              THEN diagnostic.text.value
              ELSE <<diagnostic.text.value>>
      code == IF Truthy(diagnostic.code)
              THEN Str(" (") \o diagnostic.code[1] \o Str(")")
              ELSE EmptyStr
      category == IF Truthy(diagnostic.category)
                  THEN Str(" [") \o diagnostic.category[1] \o Str("]")
                  ELSE EmptyStr
      lines == [index \in 1..Len(text) |->
                  text[index] \o (IF index = 1 THEN code ELSE EmptyStr)]
      output == Join(lines, Str(NL)) \o category
  IN IF IsSome(diagnostic.related) /\ Len(diagnostic.related[1]) > 0
     THEN output \o Str(NL) \o Join(formatRelated(diagnostic.related[1]), Str(NL))
     ELSE output

(***************************************************************************)
(* The rendering primitive (markdown-or-chalk) at its boundary: each of    *)
(* its functions wraps the text in an atom that names the function.        *)
(***************************************************************************)
\* this.format.header(text, level)
FormatHeader(text, level) ==
  Str(CASE level = 1 -> "<h1>" [] level = 2 -> "<h2>" [] OTHER -> "<h3>") \o text
\* this.format.indent(text, depth)
FormatIndent(text, depth) == [i \in 1..depth |-> "<indent>"] \o text
\* this.format.chalk.red(text), this.format.chalk.gray(text)
ChalkRed(text) == Str("<red>") \o text
ChalkGray(text) == Str("<gray>") \o text
\* this.format.logSymbols.success, this.format.logSymbols.error
SymbolSuccess == Str("<success>")
SymbolError == Str("<error>")

(***************************************************************************)
(* The console.  A piece of output: the stream, the text and whether the   *)
(* call ends the line.                                                     *)
(***************************************************************************)
Piece(stream, text, nl) == [stream |-> stream, text |-> text, nl |-> nl]

(***************************************************************************)
(* The execution of one call of on(): the reporter instance, the output    *)
(* written so far, the methods entered so far with one integer argument    *)
(* (the indentation, the level, the column count found; 0 when it has      *)
(* none), the handlers on() has invoked and whether an Error was thrown.   *)
(***************************************************************************)
Call(fn, arg) == [fn |-> fn, arg |-> arg]
Enter(c, fn, arg) == [c EXCEPT !.trace = Append(@, Call(fn, arg))]
\* console.log(text)
ConsoleLog(c, text) == [c EXCEPT !.out = Append(@, Piece("stdout", text, TRUE))]
\* console.error(text)
ConsoleError(c, text) == [c EXCEPT !.out = Append(@, Piece("stderr", text, TRUE))]
\* process.stdout.write(text)
StdoutWrite(c, text) == [c EXCEPT !.out = Append(@, Piece("stdout", text, FALSE))]
\* throw new Error(...)
Throw(c) == [c EXCEPT !.threw = TRUE]

\* A faulty variant of assertTypeIsNever: the assertion returns without throwing.
assertTypeIsNeverSilent(c) == Enter(c, "assertTypeIsNever", 0)

\* assertTypeIsNever (lib/utils.js)
assertTypeIsNever(c) == Throw(Enter(c, "assertTypeIsNever", 0))

(***************************************************************************)
(* TstycheBaseReporter                                                     *)
(***************************************************************************)
\* A faulty variant of shouldUseMarkdownMode: markdown mode unless the variable is 'false'.
shouldUseMarkdownModeUnlessFalse(env) == env # Some("false")

\* _shouldUseMarkdownMode: process.env['TSTYCHE_REPORTERS_MARKDOWN'] === 'true'
shouldUseMarkdownMode(env) == env = Some("true")

\* new MarkdownOrChalk(useMarkdown): format.chalk is undefined in markdown mode
HasChalk(useMarkdown) == ~useMarkdown

\* constructor of the three classes
NewReporter(cls, env) ==
  [ cls |-> cls,
    chalk |-> HasChalk(shouldUseMarkdownMode(env)),
    currentCompilerVersion |-> None,
    lastShownCompilerVersion |-> None,
    dotsOnCurrentLine |-> 0,
    currentDescribeStack |-> <<>> ]

\* A faulty variant of printEach: only the first diagnostic of the payload is printed.
printEachFirstOnly(c, diagnostics) ==
  IF Len(diagnostics) = 0 THEN c
  ELSE LET errorLine == Str("Error: ") \o formatDiagnostic(diagnostics[1])
       IN ConsoleError(c, IF c.self.chalk THEN ChalkRed(errorLine) ELSE errorLine)

RECURSIVE printEach(_, _)
\* the loop of _printErrors over payload.diagnostics
printEach(c, diagnostics) ==
  IF Len(diagnostics) = 0 THEN c
  ELSE LET message == formatDiagnostic(diagnostics[1])
           errorLine == Str("Error: ") \o message
       IN printEach(
            ConsoleError(c, IF c.self.chalk THEN ChalkRed(errorLine) ELSE errorLine),
            Tail(diagnostics))

\* TstycheBaseReporter._printErrors
printErrors(c, payload) ==
  printEach(Enter(c, "_printErrors", Len(payload.diagnostics)), payload.diagnostics)

\* `${this.currentCompilerVersion}`
VersionText(v) == IF IsSome(v) THEN Str(v[1]) ELSE Str("undefined")

\* TstycheBaseReporter._printCompilerVersion
printCompilerVersion(c) ==
  LET header == FormatHeader(
                  Str("uses TypeScript ") \o VersionText(c.self.currentCompilerVersion)
                    \o Str(" with ./tsconfig.json"), 1)
  IN ConsoleLog(Enter(c, "_printCompilerVersion", 0), header)

\* TstycheBaseReporter._onError
Base_onError(c, reporterEvent) ==
  printErrors(Enter(c, "TstycheBaseReporter._onError", 0), reporterEvent.payload)

\* A faulty variant of Base_onNonImplementedEvent: the handler ends the line.
Base_onNonImplementedEventNoisy(c, reporterEvent) ==
  ConsoleLog(Enter(c, "TstycheBaseReporter._onNonImplementedEvent", 0), EmptyStr)

\* TstycheBaseReporter._onNonImplementedEvent
Base_onNonImplementedEvent(c, reporterEvent) ==
  Enter(c, "TstycheBaseReporter._onNonImplementedEvent", 0)

\* A faulty variant of Base_onRunStart: the version last shown survives the run start.
Base_onRunStartKeepsShown(c, payload) ==
  [Enter(c, "TstycheBaseReporter._onRunStart", 0) EXCEPT
     !.self.currentCompilerVersion = None]

\* TstycheBaseReporter._onRunStart
Base_onRunStart(c, payload) ==
  [Enter(c, "TstycheBaseReporter._onRunStart", 0) EXCEPT
     !.self.currentCompilerVersion = None,
     !.self.lastShownCompilerVersion = None]

\* TstycheBaseReporter._onTestPass
Base_onTestPass(c, payload) == Throw(Enter(c, "TstycheBaseReporter._onTestPass", 0))
\* TstycheBaseReporter._onTestFail
Base_onTestFail(c, payload) == Throw(Enter(c, "TstycheBaseReporter._onTestFail", 0))
\* A faulty variant of Base_onRunEnd: the base handler returns without throwing.
Base_onRunEndSilent(c, payload) == Enter(c, "TstycheBaseReporter._onRunEnd", 0)

\* TstycheBaseReporter._onRunEnd
Base_onRunEnd(c, payload) == Throw(Enter(c, "TstycheBaseReporter._onRunEnd", 0))
\* TstycheBaseReporter._onFileStart
Base_onFileStart(c, payload) == Enter(c, "TstycheBaseReporter._onFileStart", 0)
\* TstycheBaseReporter._onDescribeStart
Base_onDescribeStart(c, payload) == Enter(c, "TstycheBaseReporter._onDescribeStart", 0)
\* TstycheBaseReporter._onDescribeEnd
Base_onDescribeEnd(c, payload) == Enter(c, "TstycheBaseReporter._onDescribeEnd", 0)
\* TstycheBaseReporter._beforePrintCompilerVersion
Base_beforePrintCompilerVersion(c) ==
  Enter(c, "TstycheBaseReporter._beforePrintCompilerVersion", 0)

(***************************************************************************)
(* TstycheDotReporter                                                      *)
(***************************************************************************)
\* the column at which the line of marks wraps
WrapAt == 80

\* A faulty variant of writeDotChar: the mark that fills the line is replaced by the line end.
writeDotCharDropsAtWrap(c, char) ==
  LET c1 == Enter(c, "#writeDotChar", c.self.dotsOnCurrentLine)
  IN IF c1.self.dotsOnCurrentLine + 1 >= WrapAt
     THEN [ConsoleLog(c1, EmptyStr) EXCEPT !.self.dotsOnCurrentLine = 0]
     ELSE [StdoutWrite(c1, Str(char)) EXCEPT !.self.dotsOnCurrentLine = @ + 1]

\* A faulty variant of writeDotChar: the line wraps one mark late.
writeDotCharWrapsLate(c, char) ==
  LET c1 == StdoutWrite(Enter(c, "#writeDotChar", c.self.dotsOnCurrentLine), Str(char))
      c2 == [c1 EXCEPT !.self.dotsOnCurrentLine = @ + 1]
  IN IF c2.self.dotsOnCurrentLine > WrapAt
     THEN [ConsoleLog(c2, EmptyStr) EXCEPT !.self.dotsOnCurrentLine = 0]
     ELSE c2

\* A faulty variant of writeDotChar: each mark is counted twice.
writeDotCharCountsTwice(c, char) ==
  LET c1 == StdoutWrite(Enter(c, "#writeDotChar", c.self.dotsOnCurrentLine), Str(char))
      c2 == [c1 EXCEPT !.self.dotsOnCurrentLine = @ + 2]
  IN IF c2.self.dotsOnCurrentLine >= WrapAt
     THEN [ConsoleLog(c2, EmptyStr) EXCEPT !.self.dotsOnCurrentLine = 0]
     ELSE c2

\* TstycheDotReporter.#writeDotChar
writeDotChar(c, char) ==
  LET c1 == StdoutWrite(Enter(c, "#writeDotChar", c.self.dotsOnCurrentLine), Str(char))
      c2 == [c1 EXCEPT !.self.dotsOnCurrentLine = @ + 1]
  IN IF c2.self.dotsOnCurrentLine >= WrapAt
     THEN [ConsoleLog(c2, EmptyStr) EXCEPT !.self.dotsOnCurrentLine = 0]
     ELSE c2

\* A faulty variant of flushDots: the line is ended whatever the column count is.
flushDotsAlways(c) ==
  [ConsoleLog(Enter(c, "#flushDots", c.self.dotsOnCurrentLine), EmptyStr) EXCEPT
     !.self.dotsOnCurrentLine = 0]

\* TstycheDotReporter.#flushDots
flushDots(c) ==
  LET c1 == Enter(c, "#flushDots", c.self.dotsOnCurrentLine)
  IN IF c1.self.dotsOnCurrentLine > 0
     THEN [ConsoleLog(c1, EmptyStr) EXCEPT !.self.dotsOnCurrentLine = 0]
     ELSE c1

\* A faulty variant of Dot_onRunStart: the override does not call super.
Dot_onRunStartNoSuper(c, payload) ==
  [Enter(c, "TstycheDotReporter._onRunStart", 0) EXCEPT !.self.dotsOnCurrentLine = 0]

\* TstycheDotReporter._onRunStart
Dot_onRunStart(c, payload) ==
  [Base_onRunStart(Enter(c, "TstycheDotReporter._onRunStart", 0), payload) EXCEPT
     !.self.dotsOnCurrentLine = 0]

\* TstycheDotReporter._beforePrintCompilerVersion
Dot_beforePrintCompilerVersion(c) ==
  flushDots(Enter(c, "TstycheDotReporter._beforePrintCompilerVersion", 0))

\* A faulty variant of Dot_onTestPass: the mark is counted now and not written.
Dot_onTestPassHeldBack(c, payload) ==
  [Enter(c, "TstycheDotReporter._onTestPass", 0) EXCEPT !.self.dotsOnCurrentLine = @ + 1]

\* TstycheDotReporter._onTestPass
Dot_onTestPass(c, payload) ==
  writeDotChar(Enter(c, "TstycheDotReporter._onTestPass", 0), ".")

\* TstycheDotReporter._onTestFail
Dot_onTestFail(c, payload) ==
  writeDotChar(Enter(c, "TstycheDotReporter._onTestFail", 0), "F")

\* A faulty variant of Dot_onRunEnd: one trailing blank line instead of two.
Dot_onRunEndOneBlank(c, payload) ==
  ConsoleLog(flushDots(Enter(c, "TstycheDotReporter._onRunEnd", 0)), EmptyStr)

\* TstycheDotReporter._onRunEnd
Dot_onRunEnd(c, payload) ==
  ConsoleLog(ConsoleLog(flushDots(Enter(c, "TstycheDotReporter._onRunEnd", 0)),
                        EmptyStr),
             EmptyStr)

\* TstycheDotReporter._onError
Dot_onError(c, reporterEvent) ==
  Base_onError(flushDots(Enter(c, "TstycheDotReporter._onError", 0)), reporterEvent)

(***************************************************************************)
(* TstycheMochaReporter                                                    *)
(***************************************************************************)
\* {} where the code reads .describe or .test, and where it reads .name
EmptyResult == [node |-> None]
EmptyNode == [name |-> None]

\* A faulty variant of printDescribeStart: every scope gets the top-level heading.
printDescribeStartAlwaysTop(c, describe, level) ==
  ConsoleLog(Enter(c, "#printDescribeStart", level), FormatHeader(describe.name, 2))

\* TstycheMochaReporter.#printDescribeStart
printDescribeStart(c, describe, level) ==
  LET header == FormatHeader(describe.name, IF level = 0 THEN 2 ELSE 3)
  IN ConsoleLog(Enter(c, "#printDescribeStart", level), header)

\* A faulty variant of printTest: the line is indented in markdown mode too.
printTestAlwaysIndent(c, description, passed, indent) ==
  LET mark == IF passed THEN SymbolSuccess ELSE SymbolError
      testLine == mark \o Str(" ") \o description
      coloured == IF c.self.chalk
                  THEN (IF passed THEN ChalkGray(testLine) ELSE ChalkRed(testLine))
                  ELSE testLine
      output == IF indent > 0 THEN FormatIndent(coloured, indent) ELSE coloured
  IN ConsoleLog(Enter(c, "#printTest", indent), output)

\* TstycheMochaReporter.#printTest
printTest(c, description, passed, indent) ==
  LET mark == IF passed THEN SymbolSuccess ELSE SymbolError
      testLine == mark \o Str(" ") \o description
      coloured == IF c.self.chalk
                  THEN (IF passed THEN ChalkGray(testLine) ELSE ChalkRed(testLine))
                  ELSE testLine
      output == IF c.self.chalk /\ indent > 0
                THEN FormatIndent(coloured, indent)
                ELSE coloured
  IN ConsoleLog(Enter(c, "#printTest", indent), output)

\* A faulty variant of recordTest: the indentation is the depth of the enclosing scope.
recordTestOffByOne(c, payload, passed) ==
  LET result == OrElse(payload.result, EmptyResult)
      testObj == OrElse(result.node, EmptyNode)
      description == OrElse(testObj.name, Str("test"))
      indent == IF Len(c.self.currentDescribeStack) = 0 THEN 0
                ELSE Len(c.self.currentDescribeStack) - 1
  IN printTest(Enter(c, "#recordTest", 0), description, passed, indent)

\* TstycheMochaReporter.#recordTest
recordTest(c, payload, passed) ==
  LET result == OrElse(payload.result, EmptyResult)
      testObj == OrElse(result.node, EmptyNode)
      description == OrElse(testObj.name, Str("test"))
      indent == Len(c.self.currentDescribeStack)
  IN printTest(Enter(c, "#recordTest", 0), description, passed, indent)

\* A faulty variant of Mocha_onRunStart: the scopes of the previous run stay open.
Mocha_onRunStartKeepsScopes(c, payload) ==
  Base_onRunStart(Enter(c, "TstycheMochaReporter._onRunStart", 0), payload)

\* TstycheMochaReporter._onRunStart
Mocha_onRunStart(c, payload) ==
  [Base_onRunStart(Enter(c, "TstycheMochaReporter._onRunStart", 0), payload) EXCEPT
     !.self.currentDescribeStack = <<>>]

\* A faulty variant of Mocha_onFileStart: the scopes of the previous file stay open.
Mocha_onFileStartKeepsScopes(c, payload) ==
  Enter(c, "TstycheMochaReporter._onFileStart", 0)

\* TstycheMochaReporter._onFileStart
Mocha_onFileStart(c, payload) ==
  [Enter(c, "TstycheMochaReporter._onFileStart", 0) EXCEPT
     !.self.currentDescribeStack = <<>>]

\* A faulty variant of Mocha_onDescribeStart: the level is the depth of the stack.
Mocha_onDescribeStartOffByOne(c, payload) ==
  LET result == OrElse(payload.result, EmptyResult)
      describeObj == OrElse(result.node, EmptyNode)
      describe == [name |-> OrElse(describeObj.name, Str("describe"))]
      c1 == [Enter(c, "TstycheMochaReporter._onDescribeStart", 0) EXCEPT
               !.self.currentDescribeStack = Append(@, describe)]
      indent == Len(c1.self.currentDescribeStack)
  IN printDescribeStart(c1, describe, indent)

\* TstycheMochaReporter._onDescribeStart
Mocha_onDescribeStart(c, payload) ==
  LET result == OrElse(payload.result, EmptyResult)
      describeObj == OrElse(result.node, EmptyNode)
      describe == [name |-> OrElse(describeObj.name, Str("describe"))]
      c1 == [Enter(c, "TstycheMochaReporter._onDescribeStart", 0) EXCEPT
               !.self.currentDescribeStack = Append(@, describe)]
      indent == Len(c1.self.currentDescribeStack) - 1
  IN printDescribeStart(c1, describe, indent)

\* Array.prototype.pop: removes the last element, does nothing on an empty array
Pop(stack) == IF Len(stack) = 0 THEN stack ELSE SubSeq(stack, 1, Len(stack) - 1)

\* A faulty variant of Mocha_onDescribeEnd: an end without an open scope is an error.
Mocha_onDescribeEndStrict(c, payload) ==
  LET c1 == Enter(c, "TstycheMochaReporter._onDescribeEnd", 0)
  IN IF Len(c1.self.currentDescribeStack) = 0 THEN Throw(c1)
     ELSE [c1 EXCEPT !.self.currentDescribeStack = Pop(@)]

\* A faulty variant of Mocha_onDescribeEnd: every open scope is closed.
Mocha_onDescribeEndClears(c, payload) ==
  [Enter(c, "TstycheMochaReporter._onDescribeEnd", 0) EXCEPT
     !.self.currentDescribeStack = <<>>]

\* TstycheMochaReporter._onDescribeEnd
Mocha_onDescribeEnd(c, payload) ==
  [Enter(c, "TstycheMochaReporter._onDescribeEnd", 0) EXCEPT
     !.self.currentDescribeStack = Pop(@)]

\* TstycheMochaReporter._onTestPass
Mocha_onTestPass(c, payload) ==
  recordTest(Enter(c, "TstycheMochaReporter._onTestPass", 0), payload, TRUE)

\* TstycheMochaReporter._onTestFail
Mocha_onTestFail(c, payload) ==
  recordTest(Enter(c, "TstycheMochaReporter._onTestFail", 0), payload, FALSE)

\* A faulty variant of Mocha_onRunEnd: two trailing blank lines, as the dot reporter.
Mocha_onRunEndTwoBlanks(c, payload) ==
  ConsoleLog(ConsoleLog(Enter(c, "TstycheMochaReporter._onRunEnd", 0), EmptyStr),
             EmptyStr)

\* TstycheMochaReporter._onRunEnd
Mocha_onRunEnd(c, payload) ==
  ConsoleLog(Enter(c, "TstycheMochaReporter._onRunEnd", 0), EmptyStr)

\* TstycheMochaReporter._onError
Mocha_onError(c, reporterEvent) ==
  Base_onError(ConsoleLog(Enter(c, "TstycheMochaReporter._onError", 0), EmptyStr),
               reporterEvent)

(***************************************************************************)
(* Method resolution: the method a call this._onX() reaches in an instance *)
(* of each class (the override when the class has one, else the base's).   *)
(***************************************************************************)
beforePrintCompilerVersion(c) ==
  IF c.self.cls = "dot" THEN Dot_beforePrintCompilerVersion(c)
  ELSE Base_beforePrintCompilerVersion(c)

\* A faulty variant of onProjectUses: the version shown is not remembered.
onProjectUsesForgetful(c, payload) ==
  LET c1 == [Enter(c, "TstycheBaseReporter._onProjectUses", 0) EXCEPT
               !.self.currentCompilerVersion = payload.compilerVersion]
  IN IF c1.self.currentCompilerVersion # c1.self.lastShownCompilerVersion
     THEN printCompilerVersion(beforePrintCompilerVersion(c1))
     ELSE c1

\* A faulty variant of onProjectUses: the header is printed before the hook runs.
onProjectUsesHeaderFirst(c, payload) ==
  LET c1 == [Enter(c, "TstycheBaseReporter._onProjectUses", 0) EXCEPT
               !.self.currentCompilerVersion = payload.compilerVersion]
  IN IF c1.self.currentCompilerVersion # c1.self.lastShownCompilerVersion
     THEN LET c2 == beforePrintCompilerVersion(printCompilerVersion(c1))
          IN [c2 EXCEPT !.self.lastShownCompilerVersion =
                           c2.self.currentCompilerVersion]
     ELSE c1

\* TstycheBaseReporter._onProjectUses (no class overrides it)
onProjectUses(c, payload) ==
  LET c1 == [Enter(c, "TstycheBaseReporter._onProjectUses", 0) EXCEPT
               !.self.currentCompilerVersion = payload.compilerVersion]
  IN IF c1.self.currentCompilerVersion # c1.self.lastShownCompilerVersion
     THEN LET c2 == printCompilerVersion(beforePrintCompilerVersion(c1))
          IN [c2 EXCEPT !.self.lastShownCompilerVersion =
                           c2.self.currentCompilerVersion]
     ELSE c1

onError(c, reporterEvent) ==
  CASE c.self.cls = "dot" -> Dot_onError(c, reporterEvent)
    [] c.self.cls = "mocha" -> Mocha_onError(c, reporterEvent)
    [] OTHER -> Base_onError(c, reporterEvent)

onNonImplementedEvent(c, reporterEvent) == Base_onNonImplementedEvent(c, reporterEvent)

onRunStart(c, payload) ==
  CASE c.self.cls = "dot" -> Dot_onRunStart(c, payload)
    [] c.self.cls = "mocha" -> Mocha_onRunStart(c, payload)
    [] OTHER -> Base_onRunStart(c, payload)

onFileStart(c, payload) ==
  IF c.self.cls = "mocha" THEN Mocha_onFileStart(c, payload)
  ELSE Base_onFileStart(c, payload)

onDescribeStart(c, payload) ==
  IF c.self.cls = "mocha" THEN Mocha_onDescribeStart(c, payload)
  ELSE Base_onDescribeStart(c, payload)

onDescribeEnd(c, payload) ==
  IF c.self.cls = "mocha" THEN Mocha_onDescribeEnd(c, payload)
  ELSE Base_onDescribeEnd(c, payload)

\* A faulty variant of onTestPass: the dot reporter does not override the handler.
onTestPassNotOverridden(c, payload) ==
  IF c.self.cls = "mocha" THEN Mocha_onTestPass(c, payload)
  ELSE Base_onTestPass(c, payload)

onTestPass(c, payload) ==
  CASE c.self.cls = "dot" -> Dot_onTestPass(c, payload)
    [] c.self.cls = "mocha" -> Mocha_onTestPass(c, payload)
    [] OTHER -> Base_onTestPass(c, payload)

onTestFail(c, payload) ==
  CASE c.self.cls = "dot" -> Dot_onTestFail(c, payload)
    [] c.self.cls = "mocha" -> Mocha_onTestFail(c, payload)
    [] OTHER -> Base_onTestFail(c, payload)

onRunEnd(c, payload) ==
  CASE c.self.cls = "dot" -> Dot_onRunEnd(c, payload)
    [] c.self.cls = "mocha" -> Mocha_onRunEnd(c, payload)
    [] OTHER -> Base_onRunEnd(c, payload)

(***************************************************************************)
(* on(): the switch over reporterEvent[0].  Each case of the switch: its   *)
(* labels, the handler it calls and whether it ends with break.  A case    *)
(* that matches runs its handler and, as long as no break is met, the      *)
(* handlers of the cases below it.                                         *)
(***************************************************************************)
Case(labels, call, brk) == [labels |-> labels, call |-> call, brk |-> brk]

\* A faulty variant of OnSwitch: the break after the run:start case is missing.
OnSwitchFallThrough ==
  << Case(ErrorKinds, "_onError", TRUE),
     Case({"run:start"}, "_onRunStart", FALSE),
     Case({"project:uses"}, "_onProjectUses", TRUE),
     Case({"file:start"}, "_onFileStart", TRUE),
     Case({"describe:start"}, "_onDescribeStart", TRUE),
     Case({"describe:end"}, "_onDescribeEnd", TRUE),
     Case({"test:pass"}, "_onTestPass", TRUE),
     Case({"test:fail"}, "_onTestFail", TRUE),
     Case({"run:end"}, "_onRunEnd", TRUE),
     Case(NonImplementedKinds, "_onNonImplementedEvent", TRUE) >>

OnSwitch ==
  << Case(ErrorKinds, "_onError", TRUE),
     Case({"run:start"}, "_onRunStart", TRUE),
     Case({"project:uses"}, "_onProjectUses", TRUE),
     Case({"file:start"}, "_onFileStart", TRUE),
     Case({"describe:start"}, "_onDescribeStart", TRUE),
     Case({"describe:end"}, "_onDescribeEnd", TRUE),
     Case({"test:pass"}, "_onTestPass", TRUE),
     Case({"test:fail"}, "_onTestFail", TRUE),
     Case({"run:end"}, "_onRunEnd", TRUE),
     Case(NonImplementedKinds, "_onNonImplementedEvent", TRUE) >>

RECURSIVE FromCase(_, _)
\* the handlers run from case i on, until a break
FromCase(cases, i) ==
  IF i > Len(cases) THEN <<"default">>
  ELSE IF cases[i].brk THEN <<cases[i].call>>
  ELSE <<cases[i].call>> \o FromCase(cases, i + 1)

\* the handlers the switch runs for a kind; the default branch when no label matches
Dispatched(kind) ==
  LET matching == {i \in 1..Len(OnSwitch) : kind \in OnSwitch[i].labels}
  IN IF matching = {} THEN <<"default">>
     ELSE FromCase(OnSwitch, CHOOSE i \in matching : \A j \in matching : i <= j)

\* one handler call of the switch
Invoke(c, slot, reporterEvent) ==
  LET c1 == [c EXCEPT !.handlers = Append(@, slot)]
  IN CASE slot = "_onError" -> onError(c1, reporterEvent)
       [] slot = "_onRunStart" -> onRunStart(c1, reporterEvent.payload)
       [] slot = "_onProjectUses" -> onProjectUses(c1, reporterEvent.payload)
       [] slot = "_onFileStart" -> onFileStart(c1, reporterEvent.payload)
       [] slot = "_onDescribeStart" -> onDescribeStart(c1, reporterEvent.payload)
       [] slot = "_onDescribeEnd" -> onDescribeEnd(c1, reporterEvent.payload)
       [] slot = "_onTestPass" -> onTestPass(c1, reporterEvent.payload)
       [] slot = "_onTestFail" -> onTestFail(c1, reporterEvent.payload)
       [] slot = "_onRunEnd" -> onRunEnd(c1, reporterEvent.payload)
       [] slot = "_onNonImplementedEvent" -> onNonImplementedEvent(c1, reporterEvent)
       [] OTHER -> assertTypeIsNever(c)

RECURSIVE InvokeAll(_, _, _)
\* the handler calls in order; a thrown Error ends the call of on()
InvokeAll(c, slots, reporterEvent) ==
  IF Len(slots) = 0 \/ c.threw THEN c
  ELSE InvokeAll(Invoke(c, slots[1], reporterEvent), Tail(slots), reporterEvent)

\* TstycheBaseReporter.on
on(self, reporterEvent) ==
  InvokeAll([self |-> self, out |-> <<>>, trace |-> <<>>, handlers |-> <<>>,
             threw |-> FALSE],
            Dispatched(reporterEvent.kind), reporterEvent)

(***************************************************************************)
(* The events the producer delivers.                                       *)
(***************************************************************************)
Payload(diagnostics, compilerVersion, result) ==
  [diagnostics |-> diagnostics, compilerVersion |-> compilerVersion, result |-> result]
NoPayload == Payload(<<>>, None, None)
Event(kind, payload) == [kind |-> kind, payload |-> payload]

\* payload.result of describe:start (result.describe) and test:* (result.test)
Named(name) == Some([node |-> Some([name |-> Some(Str(name))])])
Results == { None, Some([node |-> None]), Some([node |-> Some([name |-> None])]) }

DiagBadType == Diag(Scalar(Str("bad type")), Some(Str("E1")), None, None)
DiagContext == Diag(Scalar(Str("context")), None, None, None)
DiagRelated == Diag(Scalar(Str("bad type")), Some(Str("E1")), None, Some(<<DiagContext>>))
DiagLines ==
  Diag(Lines(<<Str("first"), Str("second")>>), Some(EmptyStr), Some(Str("error")),
       Some(<<>>))
DiagnosticLists == { <<>>, <<DiagBadType>>, <<DiagRelated, DiagLines>> }

\* Diagnostic trees: related diagnostics with a one-line or a two-line text,
\* nested up to a depth, below a diagnostic with every shape of text, code
\* and category.
RECURSIVE RelatedDiags(_)
RelatedDiags(depth) ==
  IF depth = 0 THEN {}
  ELSE { DiagContext, Diag(Lines(<<Str("first"), Str("second")>>), None, None, None) }
       \cup { Diag(Scalar(Str("cause")), None, None, Some(<<r>>)) :
                r \in RelatedDiags(depth - 1) }
RelatedLists ==
  { None, Some(<<>>) }
  \cup { Some(rs) :
           rs \in UNION { [1..n -> RelatedDiags(MaxRelatedDepth)] : n \in 1..MaxRelated } }
DiagTrees ==
  { Diag(text, code, category, related) :
      text \in { Scalar(Str("bad type")), Lines(<<Str("first"), Str("second")>>) },
      code \in { None, Some(EmptyStr), Some(Str("E1")) },
      category \in { None, Some(Str("error")) },
      related \in RelatedLists }

Versions == { "5.4", "5.8" }

ErrorEvents ==
  { Event(k, Payload(<<DiagBadType>>, None, None)) : k \in ErrorKinds }
  \cup { Event("test:error", Payload(ds, None, None)) : ds \in DiagnosticLists }
UsesEvents == { Event("project:uses", Payload(<<>>, Some(v), None)) : v \in Versions }
DescribeStartEvents ==
  { Event("describe:start", Payload(<<>>, None, r)) :
      r \in {Named("A"), None} }
TestEvents ==
  { Event("test:pass", Payload(<<>>, None, r)) : r \in Results \cup {Named("x")} }
  \cup { Event("test:fail", Payload(<<>>, None, r)) : r \in {None, Named("x")} }

\* every kind of the enumeration, and kinds outside of it
Events ==
  ErrorEvents \cup UsesEvents \cup DescribeStartEvents \cup TestEvents
  \cup { Event(k, NoPayload) :
           k \in {"run:start", "file:start", "describe:end", "run:end"}
                 \cup NonImplementedKinds \cup UnknownKinds }

\* long runs of project:uses events
VersionEvents ==
  UsesEvents
  \cup { Event("file:error", Payload(<<DiagBadType>>, None, None)) }
  \cup { Event(k, NoPayload) : k \in {"run:start", "test:pass", "run:end"} }

\* long lines of marks
WrapEvents ==
  { Event("file:error", Payload(<<DiagBadType>>, None, None)) }
  \cup { Event(k, NoPayload) : k \in {"run:start", "test:pass", "test:fail", "run:end"} }

\* one diagnostic tree per error event
FormatEvents == { Event("test:error", Payload(<<d>>, None, None)) : d \in DiagTrees }

Limits(events, marks, uses) ==
  [events |-> events, marks |-> marks, uses |-> uses, log |-> FALSE]
\* the same inputs, with the events and the output of each run recorded
Logged(limits) ==
  [events |-> limits.events, marks |-> limits.marks, uses |-> limits.uses, log |-> TRUE]
AllKinds == Limits(Events, MaxMarks, MaxUses)
LongVersions == Limits(VersionEvents, 1, MaxVersionUses)
LongLines == Limits(WrapEvents, MaxWrapMarks, 0)
Formatting == Limits(FormatEvents, 0, 0)

\* a few events after the construction in each environment
ModeEvents ==
  { Event("file:error", Payload(<<DiagBadType>>, None, None)),
    Event("test:pass", Payload(<<>>, None, Named("x"))),
    Event("test:fail", Payload(<<>>, None, None)) }
Modes == Limits(ModeEvents, MaxMarks, 0)

\* the events of a run with one version, one describe block and one test
TheScenario ==
  << Event("run:start", NoPayload),
     Event("project:uses", Payload(<<>>, Some("5.4"), None)),
     Event("describe:start", Payload(<<>>, None, Named("A"))),
     Event("test:pass", Payload(<<>>, None, Named("x"))),
     Event("describe:end", NoPayload),
     Event("run:end", NoPayload) >>
ScenarioEvents == { TheScenario[i] : i \in 1..Len(TheScenario) }
Runs == Logged(Limits(ScenarioEvents, 1, 1))

(***************************************************************************)
(* State.  The first group is the reporter instance and its environment;   *)
(* the second group records the last call of on() and what the console     *)
(* has received.                                                           *)
(***************************************************************************)
VARIABLES
  env,                       \* process.env['TSTYCHE_REPORTERS_MARKDOWN'] at construction
  ci,                        \* a CI variable (CI, GITHUB_ACTIONS, ...) is set at construction
  cls,                       \* the class of the instance: "base", "dot", "mocha"
  chalk,                     \* this.format.chalk is defined (CLI mode)
  currentCompilerVersion,
  lastShownCompilerVersion,
  dotsOnCurrentLine,
  currentDescribeStack,
  lastEvent,                 \* the event of the last call of on()
  pre,                       \* the instance and the open line before that call
  handlers,                  \* the handlers the switch invoked in that call
  trace,                     \* the methods entered in that call
  emitted,                   \* the output of that call; at = marks on the line before
  threw,                     \* that call ended with a thrown Error
  sinkCol,                   \* marks on standard output since its last line end
  usesLog,                   \* versions of the project:uses events of this run
  headerLog,                 \* versions of the headers printed in this run
  runLog                     \* the events since the last run:start, it included, and
                             \* their output (recorded on request only)

vars == <<env, ci, cls, chalk, currentCompilerVersion, lastShownCompilerVersion,
          dotsOnCurrentLine, currentDescribeStack, lastEvent, pre, handlers, trace,
          emitted, threw, sinkCol, usesLog, headerLog, runLog>>

Classes == { "base", "dot", "mocha" }
EnvValues == { None, Some("true"), Some("false") }

This ==
  [ cls |-> cls, chalk |-> chalk,
    currentCompilerVersion |-> currentCompilerVersion,
    lastShownCompilerVersion |-> lastShownCompilerVersion,
    dotsOnCurrentLine |-> dotsOnCurrentLine,
    currentDescribeStack |-> currentDescribeStack ]

RECURSIVE Annotate(_, _)
\* each piece with the number of marks on the standard output line before it
Annotate(col, out) ==
  IF Len(out) = 0 THEN <<>>
  ELSE LET p == out[1]
           next == IF p.stream # "stdout" THEN col
                   ELSE IF p.nl THEN 0
                   ELSE col + Len(p.text)
       IN <<[stream |-> p.stream, text |-> p.text, nl |-> p.nl, at |-> col]>>
          \o Annotate(next, Tail(out))

RECURSIVE ColumnAfter(_, _)
ColumnAfter(col, out) ==
  IF Len(out) = 0 THEN col
  ELSE ColumnAfter(IF out[1].stream # "stdout" THEN col
                   ELSE IF out[1].nl THEN 0
                   ELSE col + Len(out[1].text),
                   Tail(out))

IsHeader(p) == p.stream = "stdout" /\ p.nl /\ Len(p.text) > 0 /\ p.text[1] = "<h1>"
IsErrorLine(p) == p.stream = "stderr"
IsLineEnd(p) == p.stream = "stdout" /\ p.nl /\ p.text = EmptyStr
\* the version a header names
HeaderVersion(p) == p.text[3]

RECURSIVE HeaderVersions(_)
HeaderVersions(out) ==
  IF Len(out) = 0 THEN <<>>
  ELSE (IF IsHeader(out[1]) THEN <<HeaderVersion(out[1])>> ELSE <<>>)
       \o HeaderVersions(Tail(out))

Constructed == Event("constructor", NoPayload)

NoRun == [events |-> <<>>, out |-> <<>>]

\* the instance after its constructor has run; no line of the constructors
\* reads the CI variables
Construct ==
  /\ env \in EnvValues
  /\ cls \in Classes
  /\ LET self == NewReporter(cls, env)
     IN /\ chalk = self.chalk
        /\ currentCompilerVersion = self.currentCompilerVersion
        /\ lastShownCompilerVersion = self.lastShownCompilerVersion
        /\ dotsOnCurrentLine = self.dotsOnCurrentLine
        /\ currentDescribeStack = self.currentDescribeStack
        /\ pre = [self |-> self, sinkCol |-> 0]
  /\ lastEvent = Constructed
  /\ handlers = <<>>
  /\ trace = <<>>
  /\ emitted = <<>>
  /\ threw = FALSE
  /\ sinkCol = 0
  /\ usesLog = <<>>
  /\ headerLog = <<>>
  /\ runLog = NoRun

\* constructed outside a CI environment
Init == ci = FALSE /\ Construct

\* constructed inside or outside a CI environment
InitModes == ci \in BOOLEAN /\ Construct

\* the inputs kept within the explored bounds
Within(ev, limits) ==
  /\ ev.kind = "project:uses" => Len(usesLog) < limits.uses
  /\ ev.kind = "describe:start" => Len(currentDescribeStack) < MaxDepth
  /\ ev.kind \in {"test:pass", "test:fail"} => sinkCol < limits.marks
  /\ limits.log => (ev.kind = "run:start" \/ Len(runLog.events) < MaxScenario)

\* one call reporter.on(ev)
Deliver(ev, limits) ==
  /\ ev \in limits.events
  /\ Within(ev, limits)
  /\ LET r == on(This, ev)
     IN /\ currentCompilerVersion' = r.self.currentCompilerVersion
        /\ lastShownCompilerVersion' = r.self.lastShownCompilerVersion
        /\ dotsOnCurrentLine' = r.self.dotsOnCurrentLine
        /\ currentDescribeStack' = r.self.currentDescribeStack
        /\ handlers' = r.handlers
        /\ trace' = r.trace
        /\ emitted' = Annotate(sinkCol, r.out)
        /\ threw' = r.threw
        /\ sinkCol' = ColumnAfter(sinkCol, r.out)
        /\ usesLog' = (IF ev.kind = "run:start" THEN <<>> ELSE usesLog)
                      \o (IF ev.kind = "project:uses"
                          THEN <<ev.payload.compilerVersion[1]>> ELSE <<>>)
        /\ headerLog' = (IF ev.kind = "run:start" THEN <<>> ELSE headerLog)
                        \o HeaderVersions(r.out)
        /\ runLog' = IF ~limits.log THEN runLog
                      ELSE IF ev.kind = "run:start"
                        THEN [events |-> <<ev>>, out |-> r.out]
                      ELSE IF runLog.events = <<>> THEN runLog
                      ELSE [events |-> Append(runLog.events, ev),
                            out |-> runLog.out \o r.out]
  /\ lastEvent' = ev
  /\ pre' = [self |-> This, sinkCol |-> sinkCol]
  /\ UNCHANGED <<env, ci, cls, chalk>>

ErrorEvent(limits) == \E ev \in limits.events : ev.kind \in ErrorKinds /\ Deliver(ev, limits)
RunStart(limits) == \E ev \in limits.events : ev.kind = "run:start" /\ Deliver(ev, limits)
ProjectUses(limits) == \E ev \in limits.events : ev.kind = "project:uses" /\ Deliver(ev, limits)
FileStart(limits) == \E ev \in limits.events : ev.kind = "file:start" /\ Deliver(ev, limits)
DescribeStart(limits) == \E ev \in limits.events : ev.kind = "describe:start" /\ Deliver(ev, limits)
DescribeEnd(limits) == \E ev \in limits.events : ev.kind = "describe:end" /\ Deliver(ev, limits)
TestPass(limits) == \E ev \in limits.events : ev.kind = "test:pass" /\ Deliver(ev, limits)
TestFail(limits) == \E ev \in limits.events : ev.kind = "test:fail" /\ Deliver(ev, limits)
RunEnd(limits) == \E ev \in limits.events : ev.kind = "run:end" /\ Deliver(ev, limits)
NonImplementedEvent(limits) ==
  \E ev \in limits.events : ev.kind \in NonImplementedKinds /\ Deliver(ev, limits)
UnknownEvent(limits) ==
  \E ev \in limits.events : ev.kind \notin EventKinds /\ Deliver(ev, limits)

Next ==
  \/ ErrorEvent(AllKinds)
  \/ RunStart(AllKinds)
  \/ ProjectUses(AllKinds)
  \/ FileStart(AllKinds)
  \/ DescribeStart(AllKinds)
  \/ DescribeEnd(AllKinds)
  \/ TestPass(AllKinds)
  \/ TestFail(AllKinds)
  \/ RunEnd(AllKinds)
  \/ NonImplementedEvent(AllKinds)
  \/ UnknownEvent(AllKinds)

Spec == Init /\ [][Next]_vars

NextVersions ==
  \/ ErrorEvent(LongVersions)
  \/ RunStart(LongVersions)
  \/ ProjectUses(LongVersions)
  \/ TestPass(LongVersions)
  \/ RunEnd(LongVersions)

SpecVersions == Init /\ [][NextVersions]_vars

NextWrap ==
  \/ ErrorEvent(LongLines)
  \/ RunStart(LongLines)
  \/ TestPass(LongLines)
  \/ TestFail(LongLines)
  \/ RunEnd(LongLines)

SpecWrap == Init /\ [][NextWrap]_vars

\* an error event as the first event the reporter receives
FirstError == lastEvent = Constructed /\ ErrorEvent(Formatting)

NextFormat == FirstError

SpecFormat == Init /\ [][NextFormat]_vars

NextModes ==
  \/ ErrorEvent(Modes)
  \/ TestPass(Modes)
  \/ TestFail(Modes)

SpecModes == InitModes /\ [][NextModes]_vars

\* a mocha reporter
InitMocha == Init /\ cls = "mocha"

NextRuns ==
  \/ RunStart(Runs)
  \/ ProjectUses(Runs)
  \/ DescribeStart(Runs)
  \/ TestPass(Runs)
  \/ DescribeEnd(Runs)
  \/ RunEnd(Runs)

SpecRuns == InitMocha /\ [][NextRuns]_vars

(***************************************************************************)
(* Properties.                                                             *)
(***************************************************************************)
Dispatching == lastEvent.kind # "constructor"
TestKinds == { "test:pass", "test:fail" }
CallsOf(fn) == SelectSeq(trace, LAMBDA t : t.fn = fn)
LineEnd == [stream |-> "stdout", text |-> EmptyStr, nl |-> TRUE]
Plain(out) == [i \in 1..Len(out) |->
                 [stream |-> out[i].stream, text |-> out[i].text, nl |-> out[i].nl]]

\* C1: every kind of the enumeration reaches exactly one handler, chosen by
\* the kind alone: the nine error kinds _onError, the eight lifecycle kinds
\* their own handler, the eighteen other kinds _onNonImplementedEvent; no
\* kind of the enumeration reaches the default branch.
C1_ExactlyOneHandler ==
  LET k == lastEvent.kind
      claimed ==
        CASE k \in { "store:error", "project:error", "file:error",
                     "directive:error", "collect:error", "test:error",
                     "expect:error", "suppressed:error", "watch:error" }
               -> "_onError"
          [] k = "run:start" -> "_onRunStart"
          [] k = "project:uses" -> "_onProjectUses"
          [] k = "file:start" -> "_onFileStart"
          [] k = "describe:start" -> "_onDescribeStart"
          [] k = "describe:end" -> "_onDescribeEnd"
          [] k = "test:pass" -> "_onTestPass"
          [] k = "test:fail" -> "_onTestFail"
          [] k = "run:end" -> "_onRunEnd"
          [] OTHER -> "_onNonImplementedEvent"
  IN /\ Cardinality(EventKinds) = 9 + 8 + 18
     /\ k \in EventKinds =>
          /\ handlers = <<claimed>>
          /\ CallsOf("assertTypeIsNever") = <<>>

C1_Witness ==
  /\ lastEvent.kind = "suppressed:ignore"
  /\ handlers = <<"_onNonImplementedEvent">>
  /\ cls = "dot"

\* C2: an event of a kind outside the enumeration makes on() throw at once:
\* no handler is invoked, nothing is written and the reporter state is what
\* it was before the call.
C2_UnknownKindIsFatal ==
  (Dispatching /\ lastEvent.kind \notin EventKinds) =>
    /\ threw
    /\ handlers = <<>>
    /\ emitted = <<>>
    /\ This = pre.self
    /\ sinkCol = pre.sinkCol

C2_Witness ==
  /\ lastEvent.kind = "test:done"
  /\ threw
  /\ cls = "mocha"
  /\ currentDescribeStack # <<>>
  /\ IsSome(currentCompilerVersion)

\* C3: in the dot and the mocha reporter no event of a kind of the
\* enumeration makes on() throw.
C3_ConcreteReportersNeverThrow ==
  (cls \in {"dot", "mocha"} /\ lastEvent.kind \in EventKinds) => ~threw

C3_Witness ==
  /\ cls = "dot"
  /\ lastEvent.kind = "test:pass"
  /\ ~threw
  /\ Len(emitted) = 1

RECURSIVE Collapse(_)
\* a sequence with adjacent duplicates collapsed
Collapse(seq) ==
  IF Len(seq) <= 1 THEN seq
  ELSE IF seq[1] = seq[2] THEN Collapse(Tail(seq))
  ELSE <<seq[1]>> \o Collapse(Tail(seq))

\* C4: within a run the versions of the headers printed are the versions of
\* the project:uses events with adjacent duplicates collapsed, whatever other
\* events come in between.
C4_HeadersAreCollapsedVersions == headerLog = Collapse(usesLog)

C4_Witness ==
  /\ usesLog = <<"5.4", "5.4", "5.8", "5.8", "5.4">>
  /\ headerLog = <<"5.4", "5.8", "5.4">>
  /\ cls = "dot"

\* C5: the dot reporter never writes a version header or an error line while
\* marks are on the unterminated line of standard output.
C5_NoOutputInsideADotLine ==
  cls = "dot" =>
    \A i \in 1..Len(emitted) :
      (IsHeader(emitted[i]) \/ IsErrorLine(emitted[i])) => emitted[i].at = 0

\* C6: in the dot reporter test:pass writes the mark '.' and test:fail the
\* mark 'F' without ending the line and adds one to the column count; at 80
\* the line is ended at once and the count is 0 again; so no line of marks
\* is longer than 80: every mark is written behind at most 79 others.
C6_MarksWrapAtEighty ==
  (cls = "dot" /\ lastEvent.kind \in TestKinds) =>
    LET before == pre.self.dotsOnCurrentLine
        mark == IF lastEvent.kind = "test:pass" THEN "." ELSE "F"
    IN /\ Len(emitted) >= 1
       /\ Plain(<<emitted[1]>>) = <<[stream |-> "stdout", text |-> Str(mark), nl |-> FALSE]>>
       /\ IF before + 1 = 80
          THEN Plain(Tail(emitted)) = <<LineEnd>> /\ dotsOnCurrentLine = 0
          ELSE Tail(emitted) = <<>> /\ dotsOnCurrentLine = before + 1
       /\ emitted[1].at < 80

\* C7: at every flush point of the dot reporter (the hook before a version
\* header, the error handler, run:end) the flush writes nothing when the
\* column count is 0 and exactly one line end when it is greater, before any
\* other output of the call, and leaves the count at 0.
C7_FlushOnlyAnOpenLine ==
  LET header == lastEvent.kind = "project:uses" /\ \E i \in 1..Len(emitted) : IsHeader(emitted[i])
      flushed == IF pre.self.dotsOnCurrentLine > 0 THEN 1 ELSE 0
      rest == SubSeq(emitted, flushed + 1, Len(emitted))
  IN (cls = "dot" /\ (lastEvent.kind \in ErrorKinds \cup {"run:end"} \/ header)) =>
       /\ Len(emitted) >= flushed
       /\ \A i \in 1..flushed : IsLineEnd(emitted[i])
       /\ CASE lastEvent.kind = "run:end" -> Plain(rest) = <<LineEnd, LineEnd>>
            [] header -> Len(rest) = 1 /\ IsHeader(rest[1])
            [] OTHER -> /\ Len(rest) = Len(lastEvent.payload.diagnostics)
                        /\ \A i \in 1..Len(rest) : IsErrorLine(rest[i])
       /\ dotsOnCurrentLine = 0

C7_Witness ==
  /\ cls = "dot"
  /\ lastEvent.kind \in ErrorKinds
  /\ pre.self.dotsOnCurrentLine = 0
  /\ Len(emitted) = 1
  /\ IsErrorLine(emitted[1])

C9_ErrorsAreRecoverable ==
  lastEvent.kind \in ErrorKinds =>
    LET diagnostics == lastEvent.payload.diagnostics
        errors == SelectSeq(emitted, IsErrorLine)
        line(i) == Str("Error: ") \o formatDiagnostic(diagnostics[i])
        untouched == [This EXCEPT
                        !.currentCompilerVersion = pre.self.currentCompilerVersion,
                        !.lastShownCompilerVersion = pre.self.lastShownCompilerVersion,
                        !.currentDescribeStack = pre.self.currentDescribeStack]
    IN /\ ~threw
       /\ Len(errors) = Len(diagnostics)
       /\ \A i \in 1..Len(errors) :
            /\ errors[i].nl
            /\ errors[i].text = IF chalk THEN ChalkRed(line(i)) ELSE line(i)
       /\ \A i \in 1..Len(emitted) : ~IsErrorLine(emitted[i]) => IsLineEnd(emitted[i])
       /\ currentCompilerVersion = pre.self.currentCompilerVersion
       /\ lastShownCompilerVersion = pre.self.lastShownCompilerVersion
       /\ currentDescribeStack = pre.self.currentDescribeStack
       /\ \A ev \in Events : on(This, ev) = on(untouched, ev)

C9_Witness ==
  /\ cls = "mocha"
  /\ lastEvent.kind = "test:error"
  /\ Len(lastEvent.payload.diagnostics) = 2
  /\ Len(SelectSeq(emitted, IsErrorLine)) = 2
  /\ currentDescribeStack # <<>>
  /\ IsSome(lastShownCompilerVersion)

\* the number of indentation atoms a line starts with
RECURSIVE Indentation(_)
Indentation(text) ==
  IF Len(text) > 0 /\ text[1] = "<indent>" THEN 1 + Indentation(Tail(text)) ELSE 0

\* C10: in the mocha reporter the indentation of a test line is the depth of
\* the describe stack: the value handed to #printTest, and in CLI mode the
\* indentation of the line written.
C10_TestIndentIsStackDepth ==
  (cls = "mocha" /\ lastEvent.kind \in TestKinds) =>
    /\ currentDescribeStack = pre.self.currentDescribeStack
    /\ Len(CallsOf("#printTest")) = 1
    /\ CallsOf("#printTest")[1].arg = Len(currentDescribeStack)
    /\ Len(emitted) = 1
    /\ chalk => Indentation(emitted[1].text) = Len(currentDescribeStack)

C10_Witness ==
  /\ cls = "mocha"
  /\ chalk
  /\ lastEvent.kind = "test:pass"
  /\ Len(currentDescribeStack) = 3
  /\ Indentation(emitted[1].text) = 3

\* C11: in the mocha reporter a test line is coloured and indented only in
\* CLI mode: in markdown mode the line is the mark, a space and the name at
\* every depth; in CLI mode a passing line is gray, a failing line red, and
\* the line is indented by the depth of the describe stack.
C11_TestLineRendering ==
  (cls = "mocha" /\ lastEvent.kind \in TestKinds) =>
    LET passed == lastEvent.kind = "test:pass"
        name == IF lastEvent.payload.result = Named("x") THEN "x" ELSE "test"
        line == <<IF passed THEN "<success>" ELSE "<error>", " ", name>>
        depth == Len(currentDescribeStack)
    IN /\ Len(emitted) = 1
       /\ emitted[1].stream = "stdout"
       /\ emitted[1].nl
       /\ ~chalk => emitted[1].text = line
       /\ chalk =>
            emitted[1].text =
              [i \in 1..depth |-> "<indent>"]
              \o <<IF passed THEN "<gray>" ELSE "<red>">> \o line

C11_Witness ==
  /\ cls = "mocha"
  /\ ~chalk
  /\ lastEvent.kind = "test:fail"
  /\ Len(currentDescribeStack) = 2
  /\ emitted[1].text = <<"<error>", " ", "x">>

RECURSIVE SplitLines(_)
\* the lines of a string: the atoms between its newline atoms
SplitLines(str) ==
  IF \A i \in 1..Len(str) : str[i] # NL THEN <<str>>
  ELSE LET first == CHOOSE i \in 1..Len(str) :
                      str[i] = NL /\ \A j \in 1..(i - 1) : str[j] # NL
       IN <<SubSeq(str, 1, first - 1)>> \o SplitLines(SubSeq(str, first + 1, Len(str)))

\* the diagnostic of an error event that carries one, and the message
\* printed for it: the error line without its colour and without 'Error: '
TheDiagnostic == lastEvent.payload.diagnostics[1]
TheMessage ==
  LET text == SelectSeq(emitted, IsErrorLine)[1].text
      plain == IF chalk THEN Tail(text) ELSE text
  IN Tail(plain)
OneDiagnostic ==
  /\ lastEvent.kind \in ErrorKinds
  /\ Len(lastEvent.payload.diagnostics) = 1
  /\ Len(SelectSeq(emitted, IsErrorLine)) = 1
Present(o) == o # None /\ o # <<EmptyStr>>
TextOf(d) == IF d.text.isArray THEN d.text.value ELSE <<d.text.value>>
NoRelated(d) == d.related = None \/ d.related = <<(<<>>)>>

\* C12: a diagnostic without related entries is printed as its text lines,
\* one per line, with ' (code)' behind the first line only, when it has a
\* code, and ' [category]' behind the last line, when it has a category;
\* {text: 'bad type', code: 'E1'} gives 'bad type (E1)'.
C12_CodeFirstCategoryLast ==
  (OneDiagnostic /\ NoRelated(TheDiagnostic)) =>
    LET d == TheDiagnostic
        text == TextOf(d)
        lines == SplitLines(TheMessage)
        code == IF Present(d.code) THEN <<" (">> \o d.code[1] \o <<")">> ELSE <<>>
        category == IF Present(d.category)
                    THEN <<" [">> \o d.category[1] \o <<"]">> ELSE <<>>
    IN /\ Len(lines) = Len(text)
       /\ \A i \in 1..Len(lines) :
            lines[i] = text[i] \o (IF i = 1 THEN code ELSE <<>>)
                               \o (IF i = Len(text) THEN category ELSE <<>>)
       /\ d = DiagBadType => TheMessage = <<"bad type", " (", "E1", ")">>

C12_Witness ==
  /\ OneDiagnostic
  /\ TheDiagnostic =
       Diag(Lines(<<Str("first"), Str("second")>>), Some(Str("E1")), Some(Str("error")),
            None)
  /\ TheMessage = <<"first", " (", "E1", ")", "\n", "second", " [", "error", "]">>

RECURSIVE LeadingIndents(_)
\* the number of two-space indentations a line starts with
LeadingIndents(line) ==
  IF line # <<>> /\ Head(line) = Indent2 THEN 1 + LeadingIndents(Tail(line)) ELSE 0

RECURSIVE LineDepths(_, _)
\* the depth in the related tree of each line of a diagnostic's rendering,
\* in order: its text lines, then the lines of each related entry
LineDepths(d, depth) ==
  LET RECURSIVE Below(_)
      Below(rs) == IF rs = <<>> THEN <<>>
                   ELSE LineDepths(Head(rs), depth + 1) \o Below(Tail(rs))
  IN [i \in 1..Len(TextOf(d)) |-> depth]
     \o (IF IsSome(d.related) THEN Below(d.related[1]) ELSE <<>>)

\* C13: every line of a diagnostic at depth d of the related tree, the lines
\* of a multi-line text and of its own related entries included, starts with
\* 2*d spaces.
C13_CumulativeIndentation ==
  OneDiagnostic =>
    LET lines == SplitLines(TheMessage)
    IN [i \in 1..Len(lines) |-> LeadingIndents(lines[i])] = LineDepths(TheDiagnostic, 0)

\* the messages of the error lines of an output, without colour and 'Error: '
MessagesOf(out, coloured) ==
  LET errors == SelectSeq(out, IsErrorLine)
  IN [i \in 1..Len(errors) |->
        Tail(IF coloured THEN Tail(errors[i].text) ELSE errors[i].text)]

\* reporters of the same mode in other states: another class, a compiler
\* version in use, marks on the line, scopes open
OtherReporters ==
  { [ cls |-> k, chalk |-> chalk,
      currentCompilerVersion |-> v, lastShownCompilerVersion |-> v,
      dotsOnCurrentLine |-> n, currentDescribeStack |-> s ] :
      k \in Classes, v \in { None, Some(Str("5.4")) }, n \in { 0, 2 },
      s \in { <<>>, <<[name |-> Str("A")]>> } }

\* C14: formatting a diagnostic tree never fails and always yields one
\* message; an absent code or category and an absent or empty related list
\* append nothing, so such a diagnostic is printed as its text lines alone;
\* the message is the same whatever the state of the reporter, and the
\* reporter's fields are the same after as before.
C14_FormatterIsTotalAndPure ==
  (lastEvent.kind \in ErrorKinds /\ Len(lastEvent.payload.diagnostics) = 1) =>
    LET d == TheDiagnostic
    IN /\ ~threw
       /\ Len(MessagesOf(emitted, chalk)) = 1
       /\ (d.code = None /\ d.category = None /\ NoRelated(d)) =>
            TheMessage = Join(TextOf(d), Str(NL))
       /\ (d.code = None /\ NoRelated(d)) =>
            SplitLines(TheMessage)[1] = TextOf(d)[1] \o
              (IF Len(TextOf(d)) = 1 /\ Present(d.category)
               THEN <<" [">> \o d.category[1] \o <<"]">> ELSE <<>>)
       /\ This = pre.self
       /\ \A other \in OtherReporters :
            LET r == on(other, lastEvent)
            IN /\ ~r.threw
               /\ MessagesOf(r.out, other.chalk) = <<TheMessage>>
               /\ r.self.currentCompilerVersion = other.currentCompilerVersion
               /\ r.self.lastShownCompilerVersion = other.lastShownCompilerVersion
               /\ r.self.currentDescribeStack = other.currentDescribeStack

C14_Witness ==
  /\ lastEvent.kind \in ErrorKinds
  /\ TheDiagnostic = Diag(Lines(<<Str("first"), Str("second")>>), None, None, Some(<<>>))
  /\ MessagesOf(emitted, chalk) = << <<"first", "\n", "second">> >>
  /\ ~threw

\* C15: the mode follows a three-valued setting: 'true' forces markdown mode,
\* 'false' forces CLI mode whatever the CI environment, and with the variable
\* unset the mode is the one CI detection gives: markdown mode inside a CI
\* environment, CLI mode outside.
C15_UnsetFollowsCiDetection ==
  /\ env = Some("true") => ~chalk
  /\ env = Some("false") => chalk
  /\ env = None => (chalk <=> ~ci)

C17_RequiredHandlersThrow ==
  (cls = "base" /\ lastEvent.kind \in EventKinds) =>
    /\ threw <=> lastEvent.kind \in { "test:pass", "test:fail", "run:end" }
    /\ threw => /\ emitted = <<>>
                /\ This = pre.self
                /\ sinkCol = pre.sinkCol
                /\ Len(trace) = 1

C17_Witness ==
  /\ cls = "base"
  /\ lastEvent.kind = "run:end"
  /\ threw
  /\ emitted = <<>>
  /\ lastShownCompilerVersion # None

C20_StackEmptyAfterStart ==
  (cls = "mocha" /\ lastEvent.kind \in { "run:start", "file:start" }) =>
    /\ currentDescribeStack = <<>>
    /\ \A ev \in TestEvents :
         LET r == on(This, ev)
             calls == SelectSeq(r.trace, LAMBDA t : t.fn = "#printTest")
         IN /\ Len(calls) = 1
            /\ calls[1].arg = 0
            /\ Indentation(r.out[1].text) = 0

C20_Witness ==
  /\ cls = "mocha"
  /\ lastEvent.kind = "file:start"
  /\ Len(pre.self.currentDescribeStack) = 3
  /\ currentDescribeStack = <<>>

\* C18: in the mocha reporter the run run:start, project:uses(5.4),
\* describe:start(A), test:pass(x), describe:end, run:end writes four lines
\* to standard output, in this order: the version header, the level-2
\* heading 'A', the pass line of 'x', and one empty line; the pass line is
\* gray and indented by 1 in CLI mode and bare in markdown mode.
C18_RunOfOneTest ==
  (cls = "mocha" /\ runLog.events = TheScenario) =>
    LET passLine == <<"<success>", " ", "x">>
    IN /\ \A i \in 1..Len(runLog.out) : runLog.out[i].stream = "stdout" /\ runLog.out[i].nl
       /\ [i \in 1..Len(runLog.out) |-> runLog.out[i].text] =
            << <<"<h1>", "uses TypeScript ", "5.4", " with ./tsconfig.json">>,
               <<"<h2>", "A">>,
               IF chalk THEN <<"<indent>", "<gray>">> \o passLine ELSE passLine,
               <<>> >>

C18_Witness ==
  /\ cls = "mocha"
  /\ ~chalk
  /\ runLog.events = TheScenario
  /\ Len(runLog.out) = 4
  /\ runLog.out[3].text = <<"<success>", " ", "x">>

\* C21: on describe:start the mocha reporter pushes one entry with the name
\* of the scope ('describe' when the payload has none) and prints one
\* heading for it in the same call: of level 2 when the stack then has one
\* entry, of level 3 when it has more.
C21_ScopeStartPushesAndPrints ==
  (cls = "mocha" /\ lastEvent.kind = "describe:start") =>
    LET name == IF lastEvent.payload.result = Named("A") THEN <<"A">> ELSE <<"describe">>
    IN /\ currentDescribeStack = Append(pre.self.currentDescribeStack, [name |-> name])
       /\ Plain(emitted) =
            << [stream |-> "stdout",
                text |-> <<IF Len(currentDescribeStack) = 1 THEN "<h2>" ELSE "<h3>">> \o name,
                nl |-> TRUE] >>
       /\ ~threw

C21_Witness ==
  /\ cls = "mocha"
  /\ lastEvent.kind = "describe:start"
  /\ lastEvent.payload.result = None
  /\ Len(currentDescribeStack) = 2
  /\ emitted[1].text = <<"<h3>", "describe">>

\* C22: on run:end the mocha reporter writes one blank line and nothing
\* else, and changes none of its fields.
C22_MochaRunEnd ==
  (cls = "mocha" /\ lastEvent.kind = "run:end") =>
    /\ Plain(emitted) = <<LineEnd>>
    /\ This = pre.self
    /\ ~threw

C22_Witness ==
  /\ cls = "mocha"
  /\ lastEvent.kind = "run:end"
  /\ Len(currentDescribeStack) = 2
  /\ lastShownCompilerVersion # None
  /\ Len(emitted) = 1

\* the methods entered in the last call, in order
Entered == [i \in 1..Len(trace) |-> trace[i].fn]

\* C23: on project:uses the current version becomes the payload's version;
\* if it differs from the version last shown, the hook runs, then the header
\* naming the new version is written, and the version last shown becomes the
\* current one; if it is the same, neither the hook nor the header runs, and
\* the dot reporter leaves its line of marks open.
C23_ProjectUsesOrder ==
  lastEvent.kind = "project:uses" =>
    LET version == lastEvent.payload.compilerVersion
        hook == IF cls = "dot"
                THEN <<"TstycheDotReporter._beforePrintCompilerVersion", "#flushDots">>
                ELSE <<"TstycheBaseReporter._beforePrintCompilerVersion">>
        flushed == IF cls = "dot" /\ pre.self.dotsOnCurrentLine > 0
                   THEN <<LineEnd>> ELSE <<>>
    IN /\ currentCompilerVersion = version
       /\ IF version # pre.self.lastShownCompilerVersion
          THEN /\ Entered = <<"TstycheBaseReporter._onProjectUses">> \o hook
                            \o <<"_printCompilerVersion">>
               /\ Len(emitted) = Len(flushed) + 1
               /\ SubSeq(Plain(emitted), 1, Len(flushed)) = flushed
               /\ IsHeader(emitted[Len(emitted)])
               /\ HeaderVersion(emitted[Len(emitted)]) = version[1]
               /\ lastShownCompilerVersion = version
          ELSE /\ Entered = <<"TstycheBaseReporter._onProjectUses">>
               /\ emitted = <<>>
               /\ lastShownCompilerVersion = pre.self.lastShownCompilerVersion
               /\ dotsOnCurrentLine = pre.self.dotsOnCurrentLine
               /\ sinkCol = pre.sinkCol

\* the version differs and the dot reporter ends its line before the header
C23_Witness ==
  /\ cls = "dot"
  /\ lastEvent.kind = "project:uses"
  /\ pre.self.lastShownCompilerVersion = Some("5.4")
  /\ lastShownCompilerVersion = Some("5.8")
  /\ pre.self.dotsOnCurrentLine = 1
  /\ Len(emitted) = 2
  /\ IsLineEnd(emitted[1])
  /\ IsHeader(emitted[2])

\* C24: currentCompilerVersion and lastShownCompilerVersion are changed by
\* project:uses and run:start only: every other kind leaves both as they
\* were, in the three reporters, and run:start sets both to undefined.
C24_VersionStateFrame ==
  Dispatching =>
    /\ lastEvent.kind \notin { "project:uses", "run:start" } =>
         /\ currentCompilerVersion = pre.self.currentCompilerVersion
         /\ lastShownCompilerVersion = pre.self.lastShownCompilerVersion
    /\ lastEvent.kind = "run:start" =>
         /\ currentCompilerVersion = None
         /\ lastShownCompilerVersion = None

C24_Witness ==
  /\ lastEvent.kind = "run:start"
  /\ pre.self.currentCompilerVersion = Some("5.8")
  /\ pre.self.lastShownCompilerVersion = Some("5.8")
  /\ currentCompilerVersion = None
  /\ lastShownCompilerVersion = None

\* the events the dot reporter has no handler of its own for
FrameEvents ==
  { ev \in Events :
      ev.kind \in { "file:start", "describe:start", "describe:end" }
                  \cup NonImplementedKinds }

\* C25: the column count of the dot reporter is a natural number, 0 after
\* construction and after run:start; a test:pass or test:fail adds exactly
\* one to it, or sets it to 0 when the line wraps; a flush (error event,
\* run:end, header of a new version) sets it to 0; file:start,
\* describe:start, describe:end, the non-implemented kinds and a
\* project:uses with the version last shown leave it as it was.
C25_ColumnCountFrame ==
  cls = "dot" =>
    LET before == pre.self.dotsOnCurrentLine
        uses == Event("project:uses", Payload(<<>>, Some("5.4"), None))
        shown(v) == [This EXCEPT !.currentCompilerVersion = v,
                                 !.lastShownCompilerVersion = v]
    IN /\ dotsOnCurrentLine \in Nat
       /\ lastEvent = Constructed => dotsOnCurrentLine = 0
       /\ lastEvent.kind = "run:start" => dotsOnCurrentLine = 0
       /\ lastEvent.kind \in TestKinds =>
            dotsOnCurrentLine = (IF before + 1 >= 80 THEN 0 ELSE before + 1)
       /\ lastEvent.kind \in ErrorKinds \cup { "run:end" } => dotsOnCurrentLine = 0
       /\ \A ev \in FrameEvents :
            on(This, ev).self.dotsOnCurrentLine = dotsOnCurrentLine
       /\ on(shown(Some("5.4")), uses).self.dotsOnCurrentLine = dotsOnCurrentLine
       /\ on(shown(Some("5.8")), uses).self.dotsOnCurrentLine = 0

\* the eightieth mark of a line: the count returns to 0
C25_Witness ==
  /\ cls = "dot"
  /\ lastEvent.kind = "test:fail"
  /\ pre.self.dotsOnCurrentLine = 79
  /\ dotsOnCurrentLine = 0
  /\ Len(emitted) = 2

RECURSIVE After(_, _)
\* the instance after a sequence of calls of on()
After(self, events) ==
  IF events = <<>> THEN self
  ELSE After(on(self, Head(events)).self, Tail(events))

\* balanced sequences of describe:start and describe:end events: one scope,
\* two scopes in a row, one scope inside another
BalancedScopes ==
  LET end == Event("describe:end", NoPayload)
  IN UNION { { <<s1, end>>, <<s1, end, s2, end>>, <<s1, s2, end, end>> } :
               s1 \in DescribeStartEvents, s2 \in DescribeStartEvents }

RECURSIVE OpenScopes(_)
\* describe:start events minus describe:end events
OpenScopes(events) ==
  IF events = <<>> THEN 0
  ELSE (IF Head(events).kind = "describe:start" THEN 1 ELSE -1) + OpenScopes(Tail(events))

\* C26: describe:end removes the top entry of the describe stack, and that
\* entry only, and writes nothing; so after a balanced sequence of
\* describe:start and describe:end events the stack has the entries it had
\* before, in the same order, and at every point of the sequence its depth
\* is the depth before plus the number of scopes open.
C26_ScopeEndPops ==
  cls = "mocha" =>
    /\ lastEvent.kind = "describe:end" =>
         /\ emitted = <<>>
         /\ ~threw
         /\ \A i \in 1..Len(currentDescribeStack) :
              currentDescribeStack[i] = pre.self.currentDescribeStack[i]
         /\ Len(pre.self.currentDescribeStack) > 0 =>
              Len(currentDescribeStack) = Len(pre.self.currentDescribeStack) - 1
    /\ \A events \in BalancedScopes :
         /\ After(This, events).currentDescribeStack = currentDescribeStack
         /\ \A n \in 0..Len(events) :
              Len(After(This, SubSeq(events, 1, n)).currentDescribeStack)
                = Len(currentDescribeStack) + OpenScopes(SubSeq(events, 1, n))

C26_Witness ==
  /\ cls = "mocha"
  /\ lastEvent.kind = "describe:end"
  /\ Len(pre.self.currentDescribeStack) = 3
  /\ currentDescribeStack = SubSeq(pre.self.currentDescribeStack, 1, 2)
  /\ emitted = <<>>

\* the pieces of the last call that are marks, test lines, scope headings
IsMark(p) == p.stream = "stdout" /\ ~p.nl
IsTestLine(p) == \E i \in 1..Len(p.text) : p.text[i] \in { "<success>", "<error>" }
IsScopeHeading(p) == Len(p.text) > 0 /\ p.text[1] \in { "<h2>", "<h3>" }
Count(Is(_)) == Len(SelectSeq(emitted, Is))

\* C27: output is written during the call of the event it belongs to and
\* never later: a test:pass or test:fail writes its mark (dot reporter) or
\* its line (mocha reporter) in its own call, a describe:start its heading;
\* no other event writes a mark, a test line or a scope heading, and a test
\* event leaves nothing behind in the reporter but the dot reporter's count.
C27_OutputIsStreamed ==
  (Dispatching /\ cls \in { "dot", "mocha" }) =>
    LET kind == lastEvent.kind
        one(b) == IF b THEN 1 ELSE 0
    IN /\ Count(IsMark) = one(cls = "dot" /\ kind \in TestKinds)
       /\ Count(IsTestLine) = one(cls = "mocha" /\ kind \in TestKinds)
       /\ Count(IsScopeHeading) = one(cls = "mocha" /\ kind = "describe:start")
       /\ (cls = "dot" /\ kind \in TestKinds) =>
            /\ IsMark(emitted[1])
            /\ emitted[1].text = <<IF kind = "test:pass" THEN "." ELSE "F">>
            /\ [This EXCEPT !.dotsOnCurrentLine = 0]
                 = [pre.self EXCEPT !.dotsOnCurrentLine = 0]
       /\ (cls = "mocha" /\ kind \in TestKinds) =>
            /\ emitted[1].text[Len(emitted[1].text)]
                 = (IF lastEvent.payload.result = Named("x") THEN "x" ELSE "test")
            /\ This = pre.self
       /\ (cls = "mocha" /\ kind = "describe:start") =>
            emitted[1].text[2]
              = currentDescribeStack[Len(currentDescribeStack)].name[1]

C27_Witness ==
  /\ cls = "dot"
  /\ lastEvent.kind = "test:fail"
  /\ pre.self.dotsOnCurrentLine = 1
  /\ Plain(emitted) = << [stream |-> "stdout", text |-> <<"F">>, nl |-> FALSE] >>

\* C28: on an error event the mocha reporter first writes one empty line to
\* standard output, whatever came before, and the dot reporter first ends
\* the line of marks that is open on standard output; the error lines of the
\* event follow in the same call.
C28_CleanLineBeforeErrors ==
  (lastEvent.kind \in ErrorKinds /\ cls \in { "dot", "mocha" }) =>
    LET first == IF cls = "mocha" \/ pre.sinkCol > 0 THEN 1 ELSE 0
        rest == SubSeq(emitted, first + 1, Len(emitted))
    IN /\ Len(emitted) = first + Len(lastEvent.payload.diagnostics)
       /\ \A i \in 1..first : IsLineEnd(emitted[i])
       /\ \A i \in 1..Len(rest) : IsErrorLine(rest[i])

\* C29: between the calls of on() the column count of the dot reporter is
\* in 0..79.
C29_ColumnCountBelowEighty ==
  cls = "dot" => dotsOnCurrentLine \in 0..79

C29_Witness ==
  /\ cls = "dot"
  /\ dotsOnCurrentLine = 79
  /\ lastEvent.kind = "test:pass"

\* C30: the column count of the dot reporter is the number of marks written
\* to standard output since the last line end; a count of 0 means that the
\* line is closed.
C30_CountIsMarksOnTheLine ==
  cls = "dot" => dotsOnCurrentLine = sinkCol

\* C31: between the calls of on() currentCompilerVersion and
\* lastShownCompilerVersion are equal, in the three reporters: after the
\* constructor, after run:start, after a project:uses with a new version and
\* after one with the version last shown.
C31_VersionsAgreeBetweenEvents ==
  currentCompilerVersion = lastShownCompilerVersion

C31_Witness ==
  /\ lastEvent.kind = "project:uses"
  /\ pre.self.lastShownCompilerVersion = Some("5.4")
  /\ currentCompilerVersion = Some("5.8")
  /\ lastShownCompilerVersion = Some("5.8")

\* the versions of the headers a call would write for each project:uses event
HeadersFor(self) ==
  [ev \in UsesEvents |-> HeaderVersions(on(self, ev).out)]

\* C32: the first project:uses of a run prints the header of its version,
\* whatever this instance showed before the run:start: right after a
\* run:start every project:uses event would print its header, and the
\* first one delivered in a run does.
C32_FirstUsesOfARunPrints ==
  /\ lastEvent.kind = "run:start" =>
       /\ lastShownCompilerVersion = None
       /\ HeadersFor(This) = [ev \in UsesEvents |-> <<ev.payload.compilerVersion[1]>>]
  /\ (lastEvent.kind = "project:uses" /\ Len(usesLog) = 1) =>
       /\ headerLog = usesLog
       /\ \E i \in 1..Len(emitted) :
            IsHeader(emitted[i]) /\ HeaderVersion(emitted[i]) = usesLog[1]

\* a run:start on an instance that showed 5.4 last: 5.4 would be printed again
C32_Witness ==
  /\ lastEvent.kind = "run:start"
  /\ pre.self.lastShownCompilerVersion = Some("5.4")
  /\ HeaderVersions(on(This, Event("project:uses", Payload(<<>>, Some("5.4"), None))).out)
       = <<"5.4">>

\* the output of the last call without line ends, headers and error lines
MarksOf(out) ==
  LET kept == SelectSeq(out, LAMBDA p : ~IsLineEnd(p) /\ ~IsHeader(p) /\ ~IsErrorLine(p))
  IN [i \in 1..Len(kept) |-> kept[i].text]

\* C33: the dot reporter writes one '.' for each test:pass and one 'F' for
\* each test:fail, in the call of that event, and no mark otherwise: with
\* line ends, headers and error lines removed, the output of a call is the
\* mark of its event or nothing, also when the line wraps at 80 and when
\* it is flushed.
C33_OneMarkPerTest ==
  (cls = "dot" /\ Dispatching) =>
    /\ MarksOf(emitted) =
         (CASE lastEvent.kind = "test:pass" -> << <<".">> >>
            [] lastEvent.kind = "test:fail" -> << <<"F">> >>
            [] OTHER -> <<>>)
    /\ lastEvent.kind \in TestKinds =>
         /\ IsMark(emitted[1])
         /\ sinkCol = (IF pre.sinkCol + 1 >= 80 /\ Len(emitted) = 2
                       THEN 0 ELSE pre.sinkCol + 1)

\* the mark that fills a line comes before the line end of the wrap
C33_Witness ==
  /\ cls = "dot"
  /\ lastEvent.kind = "test:fail"
  /\ pre.self.dotsOnCurrentLine = 79
  /\ Plain(emitted) = << [stream |-> "stdout", text |-> <<"F">>, nl |-> FALSE], LineEnd >>

\* C34: a describe:end on an empty describe stack does not throw, writes
\* nothing and leaves the stack empty, and a test that follows is printed
\* with indentation 0.
C34_UnbalancedScopeEnd ==
  (cls = "mocha" /\ lastEvent.kind = "describe:end"
     /\ pre.self.currentDescribeStack = <<>>) =>
    /\ ~threw
    /\ emitted = <<>>
    /\ currentDescribeStack = <<>>
    /\ \A ev \in TestEvents :
         LET r == on(This, ev)
             calls == SelectSeq(r.trace, LAMBDA t : t.fn = "#printTest")
         IN /\ ~r.threw
            /\ Len(calls) = 1
            /\ calls[1].arg = 0
            /\ Indentation(r.out[1].text) = 0

C34_Witness ==
  /\ cls = "mocha"
  /\ chalk
  /\ lastEvent.kind = "describe:end"
  /\ pre.self.currentDescribeStack = <<>>
  /\ currentDescribeStack = <<>>
  /\ ~threw

\* C35: at run:end the dot reporter ends the last line of marks exactly
\* once: if marks are on the unterminated line of standard output it writes
\* one line end and two blank lines, and if the line is closed (no mark
\* since the last line end, a wrap included) exactly two blank lines.
C35_LastLineEndedOnce ==
  (cls = "dot" /\ lastEvent.kind = "run:end") =>
    Plain(emitted) = (IF pre.sinkCol > 0 THEN <<LineEnd>> ELSE <<>>) \o <<LineEnd, LineEnd>>

\* C36: a run does not depend on what the instance received before its
\* run:start: after every run:start the dot and the mocha reporter are in
\* the state the constructor leaves, the run:start itself writes nothing,
\* and after a run:end the line of standard output is closed, so the output
\* from the run:start on is that of a new instance.
C36_RunsAreIndependent ==
  cls \in { "dot", "mocha" } =>
    /\ lastEvent.kind = "run:start" =>
         /\ This = NewReporter(cls, env)
         /\ emitted = <<>>
         /\ \A ev \in Events : on(This, ev).out = on(NewReporter(cls, env), ev).out
    /\ lastEvent.kind = "run:end" =>
         /\ sinkCol = 0
         /\ on(This, Event("run:start", NoPayload)).self = NewReporter(cls, env)

C36_Witness ==
  /\ cls = "mocha"
  /\ lastEvent.kind = "run:start"
  /\ pre.self.lastShownCompilerVersion = Some("5.4")
  /\ Len(pre.self.currentDescribeStack) = 2
  /\ This = NewReporter(cls, env)

\* a reporter of the other concrete class in the same compiler-version state
Twins ==
  { [ cls |-> IF cls = "dot" THEN "mocha" ELSE "dot", chalk |-> chalk,
      currentCompilerVersion |-> currentCompilerVersion,
      lastShownCompilerVersion |-> lastShownCompilerVersion,
      dotsOnCurrentLine |-> n, currentDescribeStack |-> s ] :
      n \in IF cls = "dot" THEN { 0 } ELSE { 0, 1 },
      s \in IF cls = "dot" THEN { <<>>, <<[name |-> Str("A")]>> } ELSE { <<>> } }

\* C37: the dot and the mocha reporter go through the same compiler-version
\* state and print the same version headers: from the same version state,
\* every event takes both to the same version state and makes both print
\* the same headers.
C37_SameVersionHeaders ==
  cls \in { "dot", "mocha" } =>
    \A twin \in Twins : \A ev \in Events :
      LET mine == on(This, ev)
          other == on(twin, ev)
      IN /\ mine.self.currentCompilerVersion = other.self.currentCompilerVersion
         /\ mine.self.lastShownCompilerVersion = other.self.lastShownCompilerVersion
         /\ HeaderVersions(mine.out) = HeaderVersions(other.out)
         /\ mine.threw = other.threw

\* the dot reporter ended its line before the header; the mocha reporter in
\* the same version state writes the same header alone
C37_Witness ==
  /\ cls = "dot"
  /\ lastEvent.kind = "project:uses"
  /\ pre.self.dotsOnCurrentLine = 1
  /\ Len(emitted) = 2
  /\ LET other == on([pre.self EXCEPT !.cls = "mocha", !.dotsOnCurrentLine = 0], lastEvent)
     IN /\ Len(other.out) = 1
        /\ HeaderVersions(other.out) = HeaderVersions(emitted)
        /\ other.self.lastShownCompilerVersion = lastShownCompilerVersion

====
